---- MODULE Spec2Model ----
(***************************************************************************)
(* Model of the chat server (server.js): the in-memory room registry, the  *)
(* socket.io event handlers, and the JSON files the registry is saved to.  *)
(*                                                                         *)
(* Every handler runs to completion on the single event-loop thread, so    *)
(* each handler is one action.  `event' records the event handled last and *)
(* `emitted' the socket.io emissions that handler made, in order, one      *)
(* entry per receiving socket, together with the file writes the handler   *)
(* attempted (entries addressed to FileSystem).                            *)
(*                                                                         *)
(* Spec and SpecFault drive the sockets with any event and any payload.    *)
(* SpecUI drives them through the Chat component (Chat.jsx), one component *)
(* per connection, a user action and the server's handling of the event it *)
(* emits being one step.                                                   *)
(*                                                                         *)
(* Environment assumptions: socket ids are never reused; a socket has left *)
(* all its socket.io rooms when its 'disconnect' handler runs; a failing   *)
(* fs.writeFileSync throws and leaves the file as it was.                  *)
(***************************************************************************)
EXTENDS Integers, Sequences, FiniteSets, TLC

MaxSessions == 3
MaxPeers == 2
MaxMsgs == 2
MaxQueue == 4

\* the socket ids the server can issue
Sessions == 1..MaxSessions
\* the sockets whose events are given to the server directly
Peers == {s \in Sessions : s <= MaxPeers}
RoomNames == {"general", "dev"}
Texts == {"hi"}
Users == {"alice"}
\* a field that is absent from the payload (or the empty string)
Empty == ""

\* a file that does not exist (fs.existsSync is false)
NoFile == [exists |-> FALSE, text |-> <<>>]

File(text) == [exists |-> TRUE, text |-> text]

VARIABLES
  clock,         \* the wall clock, in seconds since the first start
  status,        \* socket id -> "idle" (not issued yet) | "connected" | "closed"
  joined,        \* socket id -> the socket.io rooms the socket has joined
  rooms,         \* the Map rooms: room name -> set of socket ids
  roomsOrder,    \* insertion order of the keys of rooms
  roomMessages,  \* the Map roomMessages: room name -> sequence of messages
  roomsFile,     \* contents of storage/rooms.json, or NoFile
  msgFiles,      \* storage/messages/<name>.json, for the files that exist
  event,         \* the event handled last
  emitted,       \* the emissions made while handling it
  attempted,     \* history: names some createRoom event has carried
  succeeded,     \* history: name -> number of roomCreated emitted for it
  lastSaved,     \* history: the values handed to the last successful writes
  currentRoom,   \* Chat: socket id -> the component's currentRoom state
  clientRooms,   \* Chat: socket id -> the component's rooms state
  effectPending, \* Chat: socket id -> the [currentRoom] effect has yet to run
  sock,          \* Page: the id of its socket, 0 while it has no connection
  savedRoom,     \* Page: its currentRoom state, also kept in localStorage
  shown,         \* Page: its messages state, the list it displays
  rejoin,        \* Page: the [currentRoom] effect has yet to run
  toServer,      \* Page: events it emitted that the server has yet to handle
  toClient       \* Page: events emitted to it that it has yet to handle

\* the state of the server, of its storage and the history of its events
svars == <<clock, status, joined, rooms, roomsOrder, roomMessages, roomsFile, msgFiles,
           event, emitted, attempted, succeeded, lastSaved>>

\* the state of the Chat components
cvars == <<currentRoom, clientRooms, effectPending>>

\* the state of the page that talks to the server over a network
nvars == <<sock, savedRoom, shown, rejoin, toServer, toClient>>

\* the state of every client
uvars == <<cvars, nvars>>

vars == <<svars, cvars, nvars>>

----------------------------------------------------------------------------
(* Helpers *)

Range(s) == {s[i] : i \in DOMAIN s}

IsPrefix(s, t) == Len(s) <= Len(t) /\ SubSeq(t, 1, Len(s)) = s

\* Map.set(k, v)
MapSet(m, k, v) == [x \in DOMAIN m \cup {k} |-> IF x = k THEN v ELSE m[x]]

\* JavaScript !v for the payload fields
Falsy(v) == v = Empty

\* roomMessages.get(roomName) || []
MessagesOf(msgs, roomName) ==
  IF roomName \in DOMAIN msgs THEN msgs[roomName] ELSE <<>>

\* new Date().toLocaleTimeString() at second t
toLocaleTimeString(t) == "10:15:0" \o ToString(t) \o " AM"

Min(a, b) == IF a < b THEN a ELSE b

Connected == {s \in Sessions : status[s] = "connected"}

\* the sockets in the socket.io room `room'
InRoom(room) == {s \in Connected : room \in joined[s]}

\* one emission per target socket, in socket order
Emit(targets, ev, data) ==
  SelectSeq([i \in 1..MaxSessions |-> [to |-> i, ev |-> ev, data |-> data]],
            LAMBDA e : e.to \in targets)

\* the addressee of the entries of `emitted' that are file writes
FileSystem == 0

\* fs.writeFileSync(file, text), attempted
WriteFile(file, text) ==
  <<[to |-> FileSystem, ev |-> "writeFile", data |-> [file |-> file, text |-> text]]>>

\* reading a sequence of emissions `em'
ReceivedIn(em, s, ev) == {i \in DOMAIN em : em[i].to = s /\ em[i].ev = ev}

GotOnceIn(em, s, ev, data) ==
  /\ Cardinality(ReceivedIn(em, s, ev)) = 1
  /\ \A i \in ReceivedIn(em, s, ev) : em[i].data = data

\* the event handled: its name, the socket it came from, its payload, the
\* room the payload names and whether the handler took its main branch
Ev(op, sid, room, arg, ok) ==
  [op |-> op, sid |-> sid, room |-> room, arg |-> arg, ok |-> ok]

\* mutant: the existence test looks at the message logs instead of the rooms
roomExists_InMessages(roomName) == roomName \in DOMAIN roomMessages

\* rooms.has(roomName)
roomExists(roomName) == roomName \in DOMAIN rooms

\* mutant: the username is not validated
invalidMessage_NoUser(room, message, username) == Falsy(room) \/ Falsy(message)

\* the guard of sendMessage: !room || !message || !username
invalidMessage(room, message, username) ==
  Falsy(room) \/ Falsy(message) \/ Falsy(username)

\* mutant: the error is broadcast with io.emit
errorTargets_All(s) == Connected

\* the targets of socket.emit('error', ...)
errorTargets(s) == {s}

\* mutant: socket.to(room).emit, which skips the sender
messageTargets_Others(s, room) == InRoom(room) \ {s}

\* the targets of io.to(room).emit('message', ...)
messageTargets(s, room) == InRoom(room)

\* mutant: only the latest message is replayed
previousMessages_Latest(roomName) ==
  LET log == MessagesOf(roomMessages, roomName)
  IN IF log = <<>> THEN <<>> ELSE <<log[Len(log)]>>

\* the payload of socket.emit('previousMessages', ...)
previousMessages(roomName) == MessagesOf(roomMessages, roomName)

\* mutant: the socket is removed only from rooms it was alone in
membersAfterDisconnect_OnlyIfAlone(s) ==
  [r \in DOMAIN rooms |-> IF rooms[r] = {s} THEN {} ELSE rooms[r]]

\* mutant: a room left empty is deleted from the Map
membersAfterDisconnect_DeleteEmpty(s) ==
  [r \in {x \in DOMAIN rooms : rooms[x] \ {s} # {}} |-> rooms[r] \ {s}]

\* mutant: createRoom forgets socket.join(roomName)
joinedAfterCreate_NoJoin(s, roomName) == joined

\* the socket.io rooms after socket.join(roomName) in createRoom
joinedAfterCreate(s, roomName) == [joined EXCEPT ![s] = @ \cup {roomName}]

\* mutant: joining a room leaves the rooms joined before
joinedAfterJoin_Single(s, roomName) == [joined EXCEPT ![s] = {roomName}]

\* the socket.io rooms after socket.join(roomName) in joinRoom
joinedAfterJoin(s, roomName) == [joined EXCEPT ![s] = @ \cup {roomName}]

\* mutant: the membership Set is replaced, not added to
membersAfterJoin_Replace(users, s) == {s}

\* rooms.get(roomName).add(socket.id)
membersAfterJoin(users, s) == users \cup {s}

\* mutant: socket.broadcast.emit, which skips the creator
createdListTargets_Others(s) == Connected \ {s}

\* the targets of io.emit('roomList', ...) in createRoom
createdListTargets(s) == Connected

\* mutant: socket.emit, which reaches the joining socket only
userJoinedTargets_Self(s, roomName) == {s}

\* the targets of io.to(roomName).emit('userJoined', ...), after socket.join
userJoinedTargets(s, roomName) == InRoom(roomName) \cup {s}

\* mutant: the room list is broadcast to every socket on a connection
connectListTargets_All(s) == Connected \cup {s}

\* the targets of socket.emit('roomList', ...) on connection
connectListTargets(s) == {s}

\* mutant: only the sockets that shared a room with the leaver are told
disconnectListTargets_Affected(s) ==
  {t \in Connected \ {s} : joined[t] \cap joined[s] # {}}

\* the targets of io.emit('roomList', ...) in the disconnect handler
disconnectListTargets(s) == Connected \ {s}

\* mutant: saveMessages has no try/catch, a failed write ends the handler
saveMessagesThrows_NoCatch(wok) == ~wok

\* whether saveMessages lets the error of a failed write out: the catch
\* swallows it
saveMessagesThrows(wok) == FALSE

\* mutant: the message is emitted before the log is saved
sendEffects_EmitFirst(write, emits) == emits \o write

\* the order of sendMessage: saveMessages(room), then io.to(room).emit
sendEffects(write, emits) == write \o emits

\* rooms after the forEach of the disconnect handler
membersAfterDisconnect(s) == [r \in DOMAIN rooms |-> rooms[r] \ {s}]

\* whether the disconnect handler emits userLeft for a room: users.size === 0
emitsUserLeft(usersAfterDelete) == usersAfterDelete = {}

----------------------------------------------------------------------------
(* Persistence: JSON text is modelled by a tagged encoding of the value *)

JSONstringifyNames(names) == [i \in DOMAIN names |-> <<"str", names[i]>>]

JSONparseNames(text) == [i \in DOMAIN text |-> text[i][2]]

JSONstringifyMessages(msgs) ==
  [i \in DOMAIN msgs |-> <<"user", msgs[i].user, "text", msgs[i].text,
                           "time", msgs[i].time>>]

\* mutant: the author and the text change places
JSONparseMessages_Swapped(text) ==
  [i \in DOMAIN text |-> [user |-> text[i][4], text |-> text[i][2],
                          time |-> text[i][6]]]

JSONparseMessages(text) ==
  [i \in DOMAIN text |-> [user |-> text[i][2], text |-> text[i][4],
                          time |-> text[i][6]]]

\* the file rooms.json after saveRooms() ran on the Map with keys `order'
saveRooms(order, wok) ==
  IF wok THEN File(JSONstringifyNames(order)) ELSE roomsFile

\* the message files after saveMessages(roomName) ran on the Map `msgs'
saveMessages(msgs, roomName, wok) ==
  IF wok
  THEN MapSet(msgFiles, roomName,
              JSONstringifyMessages(MessagesOf(msgs, roomName)))
  ELSE msgFiles

\* the keys of rooms, in order, after loadSavedData() on an empty registry
loadedOrder ==
  IF roomsFile.exists THEN JSONparseNames(roomsFile.text) ELSE <<>>

loadedRooms == [r \in Range(loadedOrder) |-> {}]

loadedMessages ==
  [r \in Range(loadedOrder) |->
     IF r \in DOMAIN msgFiles THEN JSONparseMessages(msgFiles[r]) ELSE <<>>]

----------------------------------------------------------------------------
Init ==
  /\ clock = 0
  /\ status = [s \in Sessions |-> "idle"]
  /\ joined = [s \in Sessions |-> {}]
  /\ rooms = <<>>
  /\ roomsOrder = <<>>
  /\ roomMessages = <<>>
  /\ roomsFile = NoFile
  /\ msgFiles = <<>>
  /\ event = Ev("start", 0, Empty, Empty, TRUE)
  /\ emitted = <<>>
  /\ attempted = {}
  /\ succeeded = [r \in RoomNames |-> 0]
  /\ lastSaved = [rooms |-> <<>>, msgs |-> <<>>]
  /\ currentRoom = [s \in Sessions |-> Empty]
  /\ clientRooms = [s \in Sessions |-> <<>>]
  /\ effectPending = [s \in Sessions |-> FALSE]
  /\ sock = 0
  /\ savedRoom = Empty
  /\ shown = <<>>
  /\ rejoin = FALSE
  /\ toServer = <<>>
  /\ toClient = <<>>

\* io.on('connection')
Connect(s) ==
  /\ status[s] = "idle"
  /\ \A t \in Sessions : t < s => status[t] # "idle"
  /\ status' = [status EXCEPT ![s] = "connected"]
  /\ event' = Ev("connection", s, Empty, Empty, TRUE)
  /\ emitted' = Emit(connectListTargets(s), "roomList", roomsOrder)
  /\ UNCHANGED <<clock, joined, rooms, roomsOrder, roomMessages, roomsFile,
                 msgFiles, attempted, succeeded, lastSaved>>

\* socket.on('createRoom')
CreateRoom(s, roomName, wok) ==
  /\ status[s] = "connected"
  /\ attempted' = attempted \cup {roomName}
  /\ IF ~roomExists(roomName)
     THEN /\ rooms' = MapSet(rooms, roomName, {s})
          /\ roomsOrder' = Append(roomsOrder, roomName)
          /\ roomMessages' = MapSet(roomMessages, roomName, <<>>)
          /\ joined' = joinedAfterCreate(s, roomName)
          /\ emitted' = Emit({s}, "roomCreated", roomName)
                        \o Emit(createdListTargets(s), "roomList", roomsOrder')
                        \o WriteFile("rooms.json", JSONstringifyNames(roomsOrder'))
          /\ roomsFile' = saveRooms(roomsOrder', wok)
          /\ lastSaved' = IF wok THEN [lastSaved EXCEPT !.rooms = roomsOrder']
                                 ELSE lastSaved
          /\ succeeded' = [succeeded EXCEPT ![roomName] = Min(@ + 1, 2)]
          /\ event' = Ev("createRoom", s, roomName, roomName, TRUE)
     ELSE /\ emitted' = Emit(errorTargets(s), "error", "Room already exists")
          /\ event' = Ev("createRoom", s, roomName, roomName, FALSE)
          /\ UNCHANGED <<rooms, roomsOrder, roomMessages, joined, roomsFile,
                         lastSaved, succeeded>>
  /\ UNCHANGED <<clock, status, msgFiles>>

\* socket.on('joinRoom')
JoinRoom(s, roomName) ==
  /\ status[s] = "connected"
  /\ IF roomExists(roomName)
     THEN /\ joined' = joinedAfterJoin(s, roomName)
          /\ rooms' = [rooms EXCEPT ![roomName] = membersAfterJoin(@, s)]
          /\ LET messages == previousMessages(roomName)
             IN emitted' = Emit({s}, "roomJoined", roomName)
                           \o Emit({s}, "previousMessages", messages)
                           \o Emit(userJoinedTargets(s, roomName), "userJoined", s)
          /\ event' = Ev("joinRoom", s, roomName, roomName, TRUE)
     ELSE /\ emitted' = Emit(errorTargets(s), "error", "Room does not exist")
          /\ event' = Ev("joinRoom", s, roomName, roomName, FALSE)
          /\ UNCHANGED <<joined, rooms>>
  /\ UNCHANGED <<clock, status, roomsOrder, roomMessages, roomsFile, msgFiles,
                 attempted, succeeded, lastSaved>>

\* socket.on('sendMessage')
SendMessage(s, room, message, username, wok) ==
  LET data == [room |-> room, message |-> message, username |-> username] IN
  /\ status[s] = "connected"
  /\ clock < MaxMsgs
  /\ clock' = clock + 1
  /\ IF invalidMessage(room, message, username)
     THEN /\ event' = Ev("sendMessage", s, room, data, FALSE)
          /\ emitted' = <<>>
          /\ UNCHANGED <<roomMessages, msgFiles, lastSaved>>
     ELSE LET messageData == [user |-> username, text |-> message, time |-> toLocaleTimeString(clock')]
              messages == MessagesOf(roomMessages, room)
          IN /\ roomMessages' = MapSet(roomMessages, room,
                                       Append(messages, messageData))
             /\ msgFiles' = saveMessages(roomMessages', room, wok)
             /\ lastSaved' = IF wok
                             THEN [lastSaved EXCEPT
                                     !.msgs = MapSet(@, room, roomMessages'[room])]
                             ELSE lastSaved
             /\ emitted' = sendEffects(
                             WriteFile(room, JSONstringifyMessages(roomMessages'[room])),
                             IF saveMessagesThrows(wok) THEN <<>>
                             ELSE Emit(messageTargets(s, room), "message", messageData))
             /\ event' = Ev("sendMessage", s, room, data, TRUE)
  /\ UNCHANGED <<status, joined, rooms, roomsOrder, roomsFile,
                 attempted, succeeded>>

\* the emissions of rooms.forEach in the disconnect handler, for the keys
\* order[i..], `users' being the Map before the handler ran
RECURSIVE userLeftEmits(_, _, _, _)
userLeftEmits(s, order, users, i) ==
  IF i > Len(order) THEN <<>>
  ELSE LET roomName == order[i]
           here == IF s \in users[roomName] /\ emitsUserLeft(users[roomName] \ {s})
                   THEN Emit(InRoom(roomName) \ {s}, "userLeft", s)
                   ELSE <<>>
       IN here \o userLeftEmits(s, order, users, i + 1)

\* socket.on('disconnect')
Disconnect(s) ==
  /\ status[s] = "connected"
  /\ status' = [status EXCEPT ![s] = "closed"]
  /\ joined' = [joined EXCEPT ![s] = {}]
  /\ rooms' = membersAfterDisconnect(s)
  /\ emitted' = userLeftEmits(s, roomsOrder, rooms, 1)
                \o Emit(disconnectListTargets(s), "roomList", roomsOrder)
  /\ event' = Ev("disconnect", s, Empty, {r \in DOMAIN rooms : s \in rooms[r]}, TRUE)
  /\ UNCHANGED <<clock, roomsOrder, roomMessages, roomsFile, msgFiles,
                 attempted, succeeded, lastSaved>>

\* the process stops (every connection drops, no handler runs) and is
\* started again: the Maps are new and loadSavedData() fills them
Restart ==
  /\ status' = [s \in Sessions |-> IF status[s] = "connected" THEN "closed"
                                   ELSE status[s]]
  /\ joined' = [s \in Sessions |-> {}]
  /\ roomsOrder' = loadedOrder
  /\ rooms' = loadedRooms
  /\ roomMessages' = loadedMessages
  /\ event' = Ev("restart", 0, Empty, Empty, TRUE)
  /\ emitted' = <<>>
  /\ UNCHANGED <<clock, roomsFile, msgFiles, attempted, succeeded, lastSaved>>

\* every write to storage succeeds
Next ==
  \/ \E s \in Peers : Connect(s) /\ UNCHANGED uvars
  \/ \E s \in Peers, r \in RoomNames : CreateRoom(s, r, TRUE) /\ UNCHANGED uvars
  \/ \E s \in Peers, r \in RoomNames : JoinRoom(s, r) /\ UNCHANGED uvars
  \/ \E s \in Peers, r \in RoomNames \cup {Empty}, m \in Texts \cup {Empty},
        u \in Users \cup {Empty} : SendMessage(s, r, m, u, TRUE) /\ UNCHANGED uvars
  \/ \E s \in Peers : Disconnect(s) /\ UNCHANGED uvars
  \/ Restart /\ UNCHANGED uvars

Spec == Init /\ [][Next]_vars

\* a write to storage may fail
NextFault ==
  \/ \E s \in Peers : Connect(s) /\ UNCHANGED uvars
  \/ \E s \in Peers, r \in RoomNames, wok \in BOOLEAN : CreateRoom(s, r, wok) /\ UNCHANGED uvars
  \/ \E s \in Peers, r \in RoomNames : JoinRoom(s, r) /\ UNCHANGED uvars
  \/ \E s \in Peers, r \in RoomNames \cup {Empty}, m \in Texts \cup {Empty},
        u \in Users \cup {Empty}, wok \in BOOLEAN :
          SendMessage(s, r, m, u, wok) /\ UNCHANGED uvars
  \/ \E s \in Peers : Disconnect(s) /\ UNCHANGED uvars
  \/ Restart /\ UNCHANGED uvars

SpecFault == Init /\ [][NextFault]_vars

----------------------------------------------------------------------------
(* The Chat component: one per connection, the user logged in as username *)

username == "alice"

Max(S) == CHOOSE x \in S : \A y \in S : y <= x

\* socket.on('roomList', setRooms) applied to the emissions `em': the rooms
\* state of each component after it handled the events sent to it
roomsAfter(em) ==
  [t \in Sessions |->
     IF ReceivedIn(em, t, "roomList") = {} THEN clientRooms[t]
     ELSE em[Max(ReceivedIn(em, t, "roomList"))].data]

\* the component mounts with an empty localStorage and its socket connects
ClientConnect(s) ==
  /\ Connect(s)
  /\ clientRooms' = roomsAfter(emitted')
  /\ UNCHANGED <<currentRoom, effectPending>>

\* setCurrentRoom(roomName): the [currentRoom] effect runs again when the
\* value changed
setCurrentRoom(s, roomName) ==
  /\ currentRoom' = [currentRoom EXCEPT ![s] = roomName]
  /\ effectPending' = [effectPending EXCEPT ![s] = (roomName # currentRoom[s])]

\* the Create Room button, shown while currentRoom is empty: createRoom()
ClientCreateRoom(s, room) ==
  /\ ~effectPending[s]
  /\ currentRoom[s] = Empty
  /\ room # Empty /\ username # Empty
  /\ CreateRoom(s, room, TRUE)
  /\ setCurrentRoom(s, room)
  /\ clientRooms' = roomsAfter(emitted')

\* the Join Room button, shown while currentRoom is empty: joinRoom(room)
ClientJoinRoom(s, room) ==
  /\ ~effectPending[s]
  /\ currentRoom[s] = Empty
  /\ room # Empty /\ username # Empty
  /\ JoinRoom(s, room)
  /\ setCurrentRoom(s, room)
  /\ clientRooms' = roomsAfter(emitted')

\* a Join button of the Available Rooms list, shown whatever currentRoom is:
\* joinRoom(roomName)
ClientJoinListed(s, roomName) ==
  /\ ~effectPending[s]
  /\ status[s] = "connected"
  /\ roomName \in Range(clientRooms[s])
  /\ username # Empty
  /\ JoinRoom(s, roomName)
  /\ setCurrentRoom(s, roomName)
  /\ clientRooms' = roomsAfter(emitted')

\* the [currentRoom] effect: if (currentRoom) socket.emit('joinRoom', currentRoom)
ClientEffect(s) ==
  /\ effectPending[s]
  /\ currentRoom[s] # Empty
  /\ JoinRoom(s, currentRoom[s])
  /\ effectPending' = [effectPending EXCEPT ![s] = FALSE]
  /\ clientRooms' = roomsAfter(emitted')
  /\ UNCHANGED currentRoom

\* the message form, shown while currentRoom is set: sendMessage(e)
ClientSendMessage(s, message) ==
  /\ ~effectPending[s]
  /\ message # Empty /\ currentRoom[s] # Empty /\ username # Empty
  /\ SendMessage(s, currentRoom[s], message, username, TRUE)
  /\ clientRooms' = roomsAfter(emitted')
  /\ UNCHANGED <<currentRoom, effectPending>>

\* the page is closed: the component is gone and the socket disconnects
ClientClose(s) ==
  /\ Disconnect(s)
  /\ currentRoom' = [currentRoom EXCEPT ![s] = Empty]
  /\ effectPending' = [effectPending EXCEPT ![s] = FALSE]
  /\ clientRooms' = [roomsAfter(emitted') EXCEPT ![s] = <<>>]

NextUI ==
  \/ \E s \in Peers : ClientConnect(s) /\ UNCHANGED nvars
  \/ \E s \in Peers, r \in RoomNames : ClientCreateRoom(s, r) /\ UNCHANGED nvars
  \/ \E s \in Peers, r \in RoomNames : ClientJoinRoom(s, r) /\ UNCHANGED nvars
  \/ \E s \in Peers, r \in RoomNames : ClientJoinListed(s, r) /\ UNCHANGED nvars
  \/ \E s \in Peers : ClientEffect(s) /\ UNCHANGED nvars
  \/ \E s \in Peers, m \in Texts : ClientSendMessage(s, m) /\ UNCHANGED nvars
  \/ \E s \in Peers : ClientClose(s) /\ UNCHANGED nvars

SpecUI == Init /\ [][NextUI]_vars

----------------------------------------------------------------------------
(* The page: one Chat component whose socket reaches the server over a     *)
(* network. What it emits and what is emitted to it waits in a FIFO queue  *)
(* until the other side handles it; the connection can break, and          *)
(* socket.io-client then connects again with a new socket id. The other    *)
(* sockets belong to other clients, whose events the server handles as     *)
(* they come.                                                              *)

\* the room the server finds in storage when it starts
TheRoom == "general"

\* the emissions of `em' that go to socket `s', in order
deliver(s, em) == IF s = 0 THEN <<>> ELSE SelectSeq(em, LAMBDA e : e.to = s)

\* socket.emit('joinRoom', roomName) on the page
joinRoomEvent(roomName) == [ev |-> "joinRoom", data |-> roomName]

\* mutant: the saved log is appended to the list on display
setMessages_AppendLog(prev, e) ==
  IF e.ev = "message" THEN Append(prev, e.data)
  ELSE IF e.ev = "previousMessages" THEN prev \o e.data
  ELSE prev

\* the messages state after the page's listeners handled event `e':
\* 'message' appends, 'previousMessages' replaces, no other listener sets it
setMessages(prev, e) ==
  IF e.ev = "message" THEN Append(prev, e.data)
  ELSE IF e.ev = "previousMessages" THEN e.data
  ELSE prev

\* the server starts on a storage that holds the room TheRoom and no message
InitNet ==
  /\ clock = 0
  /\ status = [s \in Sessions |-> "idle"]
  /\ joined = [s \in Sessions |-> {}]
  /\ roomsFile = File(JSONstringifyNames(<<TheRoom>>))
  /\ msgFiles = <<>>
  /\ roomsOrder = loadedOrder
  /\ rooms = loadedRooms
  /\ roomMessages = loadedMessages
  /\ event = Ev("start", 0, Empty, Empty, TRUE)
  /\ emitted = <<>>
  /\ attempted = {TheRoom}
  /\ succeeded = [r \in RoomNames |-> IF r = TheRoom THEN 1 ELSE 0]
  /\ lastSaved = [rooms |-> <<TheRoom>>, msgs |-> <<>>]
  /\ currentRoom = [s \in Sessions |-> Empty]
  /\ clientRooms = [s \in Sessions |-> <<>>]
  /\ effectPending = [s \in Sessions |-> FALSE]
  /\ sock = 0
  /\ savedRoom = Empty
  /\ shown = <<>>
  /\ rejoin = FALSE
  /\ toServer = <<>>
  /\ toClient = <<>>

\* the page's socket connects, the first time or again: the server's
\* connection handler runs and the page's 'connect' listener emits joinRoom
\* for the saved room
PageConnect(s) ==
  /\ sock = 0
  /\ Connect(s)
  /\ sock' = s
  /\ toClient' = deliver(s, emitted')
  /\ toServer' = IF savedRoom # Empty THEN <<joinRoomEvent(savedRoom)>> ELSE <<>>
  /\ UNCHANGED <<savedRoom, shown, rejoin, cvars>>

\* a Join button: joinRoom(roomName)
PageJoinRoom(roomName) ==
  /\ sock # 0
  /\ ~rejoin
  /\ username # Empty
  /\ Len(toServer) < MaxQueue
  /\ toServer' = Append(toServer, joinRoomEvent(roomName))
  /\ savedRoom' = roomName
  /\ rejoin' = (roomName # savedRoom)
  /\ UNCHANGED <<sock, shown, toClient, svars, cvars>>

\* the [currentRoom] effect: if (currentRoom) socket.emit('joinRoom', currentRoom)
PageEffect ==
  /\ rejoin
  /\ sock # 0
  /\ Len(toServer) < MaxQueue
  /\ toServer' = IF savedRoom # Empty THEN Append(toServer, joinRoomEvent(savedRoom))
                 ELSE toServer
  /\ rejoin' = FALSE
  /\ UNCHANGED <<sock, savedRoom, shown, toClient, svars, cvars>>

\* the server handles the oldest event the page emitted
ServePage ==
  /\ sock # 0
  /\ toServer # <<>>
  /\ JoinRoom(sock, Head(toServer).data)
  /\ toServer' = Tail(toServer)
  /\ toClient' = toClient \o deliver(sock, emitted')
  /\ Len(toClient') <= MaxQueue
  /\ UNCHANGED <<sock, savedRoom, shown, rejoin, cvars>>

\* the page handles the oldest event emitted to it
PageHandle ==
  /\ sock # 0
  /\ toClient # <<>>
  /\ shown' = setMessages(shown, Head(toClient))
  /\ toClient' = Tail(toClient)
  /\ UNCHANGED <<sock, savedRoom, rejoin, toServer, svars, cvars>>

\* the page notices that its connection broke: what was in flight is lost
PageDrop ==
  /\ sock # 0
  /\ sock' = 0
  /\ toServer' = <<>>
  /\ toClient' = <<>>
  /\ UNCHANGED <<savedRoom, shown, rejoin, svars, cvars>>

\* the page is loaded again: the component mounts with an empty list and the
\* room of localStorage, and a new socket will connect
PageReload ==
  /\ sock # 0
  /\ sock' = 0
  /\ toServer' = <<>>
  /\ toClient' = <<>>
  /\ shown' = <<>>
  /\ rejoin' = (savedRoom # Empty)
  /\ UNCHANGED <<savedRoom, svars, cvars>>

\* the socket of another client connects
OtherConnect(s) ==
  /\ Connect(s)
  /\ toClient' = toClient \o deliver(sock, emitted')
  /\ Len(toClient') <= MaxQueue
  /\ UNCHANGED <<sock, savedRoom, shown, rejoin, toServer, cvars>>

\* another client's sendMessage reaches the server
OtherSendMessage(s, room, message, user) ==
  /\ s # sock
  /\ SendMessage(s, room, message, user, TRUE)
  /\ toClient' = toClient \o deliver(sock, emitted')
  /\ Len(toClient') <= MaxQueue
  /\ UNCHANGED <<sock, savedRoom, shown, rejoin, toServer, cvars>>

\* the server finds that a connection is gone, the page's or another one
ServerDisconnect(s) ==
  /\ Disconnect(s)
  /\ toClient' = toClient \o deliver(sock, emitted')
  /\ Len(toClient') <= MaxQueue
  /\ UNCHANGED <<sock, savedRoom, shown, rejoin, toServer, cvars>>

NextNet ==
  \/ \E s \in Sessions : PageConnect(s)
  \/ PageJoinRoom(TheRoom)
  \/ PageEffect
  \/ ServePage
  \/ PageHandle
  \/ PageDrop
  \/ PageReload
  \/ \E s \in Sessions : OtherConnect(s)
  \/ \E s \in Sessions, r \in RoomNames, m \in Texts, u \in Users :
       OtherSendMessage(s, r, m, u)
  \/ \E s \in Sessions : ServerDisconnect(s)

SpecNet == InitNet /\ [][NextNet]_vars

----------------------------------------------------------------------------
(* Reading the emissions of the event handled last *)

\* the positions of `emitted' that deliver event `ev' to socket `s'
Received(s, ev) == {i \in DOMAIN emitted : emitted[i].to = s /\ emitted[i].ev = ev}

\* socket `s' got event `ev' exactly once, carrying `data'
GotOnce(s, ev, data) ==
  /\ Cardinality(Received(s, ev)) = 1
  /\ \A i \in Received(s, ev) : emitted[i].data = data

Members(roomName) == IF roomName \in DOMAIN rooms THEN rooms[roomName] ELSE {}

----------------------------------------------------------------------------
(* C1: for every room name, createRoom succeeds exactly once, the first    *)
(* time the name is used (the room is in the registry and roomCreated goes *)
(* to the caller); every later createRoom with that name fails with the    *)
(* 'Room already exists' error sent to the caller.                         *)
C1_CreateRoomOnce ==
  /\ \A r \in RoomNames : succeeded[r] = IF r \in attempted THEN 1 ELSE 0
  /\ \A r \in attempted : r \in DOMAIN rooms
  /\ event.op = "createRoom" =>
       IF event.ok
       THEN /\ GotOnce(event.sid, "roomCreated", event.room)
            /\ Received(event.sid, "error") = {}
       ELSE /\ GotOnce(event.sid, "error", "Room already exists")
            /\ \A s \in Sessions : Received(s, "roomCreated") = {}

\* a createRoom for a name that an earlier createRoom already used
C1_Witness ==
  /\ event.op = "createRoom" /\ ~event.ok
  /\ succeeded[event.room] = 1

(* C2: a sendMessage with non-empty room, message and username delivers    *)
(* exactly one message event, with that author and text and a non-empty    *)
(* timestamp, to every member of the room, the sender included.            *)
C2_MessageToEveryMember ==
  (event.op = "sendMessage" /\ event.arg.room # Empty
                            /\ event.arg.message # Empty
                            /\ event.arg.username # Empty) =>
    \A s \in Members(event.room) :
      /\ Cardinality(Received(s, "message")) = 1
      /\ \A i \in Received(s, "message") :
           /\ emitted[i].data.user = event.arg.username
           /\ emitted[i].data.text = event.arg.message
           /\ emitted[i].data.time # Empty

\* a message sent by a member of a room that has another member
C2_Witness ==
  /\ event.op = "sendMessage" /\ event.ok
  /\ event.sid \in Members(event.room)
  /\ Cardinality(Members(event.room)) = 2

(* C3: a successful joinRoom sends the joining socket one previousMessages *)
(* event whose payload is the whole log of the room in append order, and   *)
(* the log of an existing room only grows at its end, so the payload of    *)
(* any earlier join of the room is a prefix of it.                         *)
C3_JoinReplaysLog ==
  [][/\ \A r \in DOMAIN rooms :
          IsPrefix(MessagesOf(roomMessages, r), MessagesOf(roomMessages', r))
     /\ (event'.op = "joinRoom" /\ event'.ok) =>
          /\ Cardinality({i \in DOMAIN emitted' : emitted'[i].ev = "previousMessages"}) = 1
          /\ \E i \in DOMAIN emitted' :
               /\ emitted'[i].ev = "previousMessages"
               /\ emitted'[i].to = event'.sid
               /\ emitted'[i].data = MessagesOf(roomMessages', event'.room)]_vars

\* a join of a room that has another member and two messages in its log
C3_Witness ==
  /\ event.op = "joinRoom" /\ event.ok
  /\ Cardinality(Members(event.room)) = 2
  /\ Len(MessagesOf(roomMessages, event.room)) = 2
  /\ GotOnce(event.sid, "previousMessages", roomMessages[event.room])

(* C4: every room's membership set holds connected sockets only, and a     *)
(* socket whose disconnect was handled stays disconnected, so it is in no  *)
(* membership set ever again.                                              *)
C4_MembersAreConnected ==
  [][/\ \A r \in DOMAIN rooms' : rooms'[r] \subseteq Connected'
     /\ \A s \in Sessions : status[s] = "closed" => status'[s] = "closed"]_vars

\* a socket that was in a room with another member has disconnected
C4_Witness ==
  /\ event.op = "disconnect"
  /\ \E r \in event.arg : rooms[r] # {}

(* C5: when a socket that belongs to a room disconnects, every socket      *)
(* still in that room receives userLeft carrying the departed socket's id. *)
C5_UserLeftToRemaining ==
  event.op = "disconnect" =>
    \A r \in event.arg : \A t \in rooms[r] : GotOnce(t, "userLeft", event.sid)

(* C6: a restart yields exactly the room names and, for each room, exactly *)
(* the message log that were last successfully saved.                      *)
C6_RestartLoadsLastSaved ==
  event.op = "restart" =>
    /\ roomsOrder = lastSaved.rooms
    /\ DOMAIN rooms = Range(lastSaved.rooms)
    /\ DOMAIN roomMessages = Range(lastSaved.rooms)
    /\ \A r \in DOMAIN roomMessages :
         roomMessages[r] = MessagesOf(lastSaved.msgs, r)

\* a restart that loads a room with a message; the room had been lost by an
\* earlier restart, because its save failed, and was created again
C6_Witness ==
  /\ event.op = "restart"
  /\ \E r \in DOMAIN rooms : succeeded[r] = 2 /\ Len(roomMessages[r]) = 1

C8_LogsAppendOnly ==
  [][event'.op \in {"createRoom", "joinRoom", "sendMessage", "disconnect"} =>
       \A r \in DOMAIN roomMessages :
         /\ r \in DOMAIN roomMessages'
         /\ IsPrefix(roomMessages[r], roomMessages'[r])]_vars

(* C9: a createRoom with a taken name and a joinRoom with an absent name   *)
(* change nothing in the registry and emit exactly one event, an error, to *)
(* the calling socket only.                                                *)
C9_FailureChangesNothing ==
  [][(event'.op \in {"createRoom", "joinRoom"} /\ ~event'.ok) =>
       /\ UNCHANGED <<rooms, roomsOrder, roomMessages, joined, roomsFile, msgFiles>>
       /\ Len(emitted') = 1
       /\ emitted'[1].to = event'.sid
       /\ emitted'[1].ev = "error"]_vars

\* a failed joinRoom while another socket is connected
C9_Witness ==
  /\ event.op = "joinRoom" /\ ~event.ok
  /\ Cardinality(Connected) = 2
  /\ GotOnce(event.sid, "error", "Room does not exist")

(* C10: a sendMessage in which room, message or username is missing or     *)
(* empty changes no message log, membership set or file and emits nothing. *)
C10_InvalidMessageDropped ==
  [][(event'.op = "sendMessage" /\ (\/ event'.arg.room = Empty
                                    \/ event'.arg.message = Empty
                                    \/ event'.arg.username = Empty)) =>
       /\ UNCHANGED <<rooms, roomsOrder, roomMessages, joined, roomsFile, msgFiles>>
       /\ emitted' = <<>>]_vars

\* a member of a room sends its room a message without a username
C10_Witness ==
  /\ event.op = "sendMessage" /\ ~event.ok
  /\ event.sid \in Members(event.room)
  /\ event.arg.message # Empty /\ event.arg.username = Empty
  /\ Cardinality(Members(event.room)) = 2
  /\ emitted = <<>>

----------------------------------------------------------------------------
\* the payload of the event handled last has a room, a message and a username
ValidPayload(e) ==
  /\ e.op = "sendMessage"
  /\ e.arg.room # Empty /\ e.arg.message # Empty /\ e.arg.username # Empty

\* the rooms of the Map `rm' that socket s is a member of
RoomsIn(rm, s) == {r \in DOMAIN rm : s \in rm[r]}

RoomsOf(s) == RoomsIn(rooms, s)

(* C11: a successful createRoom makes the creating socket a member of the  *)
(* new room, in the registry and in socket.io, with no joinRoom; it stays  *)
(* a member while it is connected, and every member of a room receives the *)
(* messages sent to the room.                                              *)
C11_CreatorIsMember ==
  [][/\ (event'.op = "createRoom" /\ event'.ok) =>
          /\ event'.room \notin DOMAIN rooms
          /\ event'.sid \in rooms'[event'.room]
          /\ event'.room \in joined'[event'.sid]
     /\ \A s \in Sessions : \A r \in DOMAIN rooms :
          (s \in rooms[r] /\ status'[s] = "connected") =>
             (r \in DOMAIN rooms' /\ s \in rooms'[r] /\ r \in joined'[s])
     /\ ValidPayload(event') =>
          \A s \in Sessions :
            (event'.room \in DOMAIN rooms' /\ s \in rooms'[event'.room]) =>
               Cardinality(ReceivedIn(emitted', s, "message")) = 1]_vars

\* the creator of a room, the only member, gets the message that the other
\* socket, which is not a member, sends to the room; no socket has closed, so
\* the room was created by its member
C11_Witness ==
  /\ ValidPayload(event) /\ event.ok
  /\ \A s \in Peers : status[s] = "connected"
  /\ event.sid \notin Members(event.room)
  /\ Cardinality(Members(event.room)) = 1
  /\ \A t \in Members(event.room) : Cardinality(Received(t, "message")) = 1

(* C12: after a successful createRoom every connected socket, not only the *)
(* creator, receives a roomList event whose payload is the full list of    *)
(* room names, the new name included.                                      *)
C12_RoomListToAll ==
  (event.op = "createRoom" /\ event.ok) =>
    /\ \A s \in Connected : GotOnce(s, "roomList", roomsOrder)
    /\ event.room \in Range(roomsOrder)
    /\ Range(roomsOrder) = DOMAIN rooms

\* the second room is created while another socket is connected
C12_Witness ==
  /\ event.op = "createRoom" /\ event.ok
  /\ Cardinality(Connected) = 2
  /\ Len(roomsOrder) = 2
  /\ \A s \in Connected : GotOnce(s, "roomList", roomsOrder)

(* C13: on a successful joinRoom a userJoined event carrying the joining   *)
(* socket's id is delivered to all other members of the room.              *)
C13_UserJoinedToOthers ==
  (event.op = "joinRoom" /\ event.ok) =>
    \A t \in Members(event.room) \ {event.sid} : GotOnce(t, "userJoined", event.sid)

\* a join of a room that has another member
C13_Witness ==
  /\ event.op = "joinRoom" /\ event.ok
  /\ \E t \in Members(event.room) \ {event.sid} : GotOnce(t, "userJoined", event.sid)

(* C14: a failed write during createRoom or sendMessage is swallowed: the  *)
(* registry ends in the state and the sockets get the events of a          *)
(* successful write, whether or not the write succeeded, and no connection *)
(* is lost.                                                                *)
C14_WriteFailureSwallowed ==
  [][/\ ValidPayload(event') =>
          LET r == event'.room
              log == MessagesOf(roomMessages, r)
          IN /\ DOMAIN roomMessages' = DOMAIN roomMessages \cup {r}
             /\ \A q \in DOMAIN roomMessages \ {r} : roomMessages'[q] = roomMessages[q]
             /\ Len(roomMessages'[r]) = Len(log) + 1
             /\ IsPrefix(log, roomMessages'[r])
             /\ roomMessages'[r][Len(log) + 1].user = event'.arg.username
             /\ roomMessages'[r][Len(log) + 1].text = event'.arg.message
             /\ \A t \in InRoom(r) :
                  GotOnceIn(emitted', t, "message", roomMessages'[r][Len(log) + 1])
             /\ UNCHANGED <<rooms, roomsOrder, joined, status>>
     /\ (event'.op = "createRoom" /\ event'.room \notin DOMAIN rooms) =>
          /\ rooms' = MapSet(rooms, event'.room, {event'.sid})
          /\ roomsOrder' = Append(roomsOrder, event'.room)
          /\ GotOnceIn(emitted', event'.sid, "roomCreated", event'.room)
          /\ \A t \in Connected : GotOnceIn(emitted', t, "roomList", roomsOrder')
          /\ UNCHANGED status]_vars

\* a message reached both members of its room although the file of the room
\* does not hold the log: the write failed
C14_Witness ==
  /\ ValidPayload(event)
  /\ Cardinality(Members(event.room)) = 2
  /\ \A t \in Members(event.room) : Cardinality(Received(t, "message")) = 1
  /\ \/ event.room \notin DOMAIN msgFiles
     \/ msgFiles[event.room] # JSONstringifyMessages(roomMessages[event.room])

(* C15: in every accepted sendMessage the write of the room's log, the new *)
(* message included, is attempted before the message event is emitted to   *)
(* any socket.                                                             *)
C15_SavedBeforeEmitted ==
  ValidPayload(event) =>
    \E i \in DOMAIN emitted :
      /\ emitted[i].ev = "writeFile"
      /\ emitted[i].data.file = event.room
      /\ emitted[i].data.text = JSONstringifyMessages(roomMessages[event.room])
      /\ Len(emitted[i].data.text) > 0
      /\ \A j \in DOMAIN emitted : emitted[j].ev = "message" => i < j

\* an accepted message that went to two sockets
C15_Witness ==
  /\ ValidPayload(event)
  /\ Cardinality({j \in DOMAIN emitted : emitted[j].ev = "message"}) = 2

(* C16: a joinRoom for a second room leaves the socket's membership of the *)
(* rooms it had joined unchanged, and a socket that is in two rooms gets   *)
(* the messages sent to either.                                            *)
C16_MembershipAccumulates ==
  [][/\ (event'.op = "joinRoom" /\ event'.ok) =>
          /\ \A r \in DOMAIN rooms \ {event'.room} : rooms'[r] = rooms[r]
          /\ \A s \in Sessions : joined[s] \subseteq joined'[s]
          /\ RoomsIn(rooms', event'.sid) = RoomsIn(rooms, event'.sid) \cup {event'.room}
     /\ ValidPayload(event') =>
          \A s \in Sessions :
            (Cardinality(RoomsIn(rooms', s)) = 2 /\ event'.room \in RoomsIn(rooms', s)) =>
               Cardinality(ReceivedIn(emitted', s, "message")) = 1]_vars

\* a socket that is in both rooms gets a message sent by the other socket
C16_Witness ==
  /\ ValidPayload(event)
  /\ \E s \in Sessions \ {event.sid} :
       /\ RoomsOf(s) = RoomNames
       /\ Cardinality(Received(s, "message")) = 1

(* C17: the client allows one room at a time: after any sequence of the   *)
(* user actions of the Chat component on one connection (Create Room, Join *)
(* Room, a Join button of the Available Rooms list), once the component's  *)
(* effect has run, the connection's socket is a member of at most one room *)
(* on the server.                                                          *)
C17_ClientSingleRoom ==
  \A s \in Sessions : ~effectPending[s] => Cardinality(RoomsOf(s)) <= 1

(* C18, as claimed: a joinRoom by a socket that is already a member leaves *)
(* the registry as it was and causes no effect a second time: no other     *)
(* socket is sent anything.                                                *)
C18_RepeatedJoinSilent ==
  [][(event'.op = "joinRoom" /\ event'.ok /\ event'.sid \in Members(event'.room)) =>
       /\ UNCHANGED <<rooms, roomsOrder, roomMessages, joined, roomsFile, msgFiles>>
       /\ \A i \in DOMAIN emitted' : emitted'[i].to = event'.sid]_vars

(* C18, amended: a joinRoom by a socket that is already a member leaves    *)
(* the room set, every membership set, the message logs and the files as   *)
(* they were; the events of a join are emitted again: roomJoined and       *)
(* previousMessages to the caller, userJoined to every member.             *)
C18_RepeatedJoinKeepsRegistry ==
  [][(event'.op = "joinRoom" /\ event'.ok /\ event'.sid \in Members(event'.room)) =>
       /\ UNCHANGED <<rooms, roomsOrder, roomMessages, joined, roomsFile, msgFiles>>
       /\ GotOnceIn(emitted', event'.sid, "roomJoined", event'.room)
       /\ GotOnceIn(emitted', event'.sid, "previousMessages",
                    MessagesOf(roomMessages, event'.room))
       /\ \A t \in Members(event'.room) :
            GotOnceIn(emitted', t, "userJoined", event'.sid)
       /\ Len(emitted') = 2 + Cardinality(Members(event'.room))]_vars

\* a member joins its room again and the other member is told again
C18_Witness ==
  /\ event.op = "joinRoom" /\ event.ok
  /\ Cardinality(Members(event.room)) = 2
  /\ Len(emitted) = 4
  /\ \E t \in Members(event.room) \ {event.sid} : GotOnce(t, "userJoined", event.sid)

(* C19: on connect exactly one event is emitted: roomList with the full    *)
(* list of room names, to the new socket only.                             *)
C19_ConnectListToNewOnly ==
  event.op = "connection" =>
    /\ Len(emitted) = 1
    /\ GotOnce(event.sid, "roomList", roomsOrder)
    /\ Range(roomsOrder) = DOMAIN rooms

\* a socket connects while another is connected and a room exists
C19_Witness ==
  /\ event.op = "connection"
  /\ Cardinality(Connected) = 2
  /\ roomsOrder # <<>>
  /\ GotOnce(event.sid, "roomList", roomsOrder)

(* C20: on every disconnect, whether or not the socket was in a room, a    *)
(* roomList event is sent to every socket that remains connected, and its  *)
(* payload is the list of room names as it was before the disconnect.      *)
C20_DisconnectListToAll ==
  [][event'.op = "disconnect" =>
       /\ \A t \in Connected' : GotOnceIn(emitted', t, "roomList", roomsOrder)
       /\ roomsOrder' = roomsOrder
       /\ Range(roomsOrder) = DOMAIN rooms']_vars

\* a socket that was in no room disconnects while another socket, which is
\* in a room, stays
C20_Witness ==
  /\ event.op = "disconnect"
  /\ event.arg = {}
  /\ \E t \in Connected : RoomsOf(t) # {} /\ GotOnce(t, "roomList", roomsOrder)

(* C21: in every reachable state the names that have a message log, in     *)
(* memory or on disk, are names of rooms of the registry: in memory        *)
(* exactly the rooms, on disk no other name.                               *)
C21_LogsOnlyForRooms ==
  /\ DOMAIN roomMessages = DOMAIN rooms
  /\ DOMAIN msgFiles \subseteq DOMAIN rooms

(* C22: when no write fails, between any two events the saved state is the *)
(* state in memory: rooms.json holds the registry's room names and, for    *)
(* every room, the log a restart would load is the room's log in memory.   *)
C22_DiskMatchesMemory ==
  /\ loadedOrder = roomsOrder
  /\ \A r \in DOMAIN rooms :
       r \in DOMAIN loadedMessages
       /\ loadedMessages[r] = MessagesOf(roomMessages, r)

(* C24: whenever a Chat component shows a current room and every event it  *)
(* emitted has been handled, its socket is a member of that room on the    *)
(* server, also after a createRoom or joinRoom answered with an error.     *)
C24_ShownRoomIsJoined ==
  \A s \in Connected :
    (~effectPending[s] /\ currentRoom[s] # Empty) => s \in Members(currentRoom[s])

(* C23: for a page that has only ever selected the one existing room, once *)
(* the page is connected and every event in flight, in either direction,   *)
(* has been handled, the list it displays is the server's log of that      *)
(* room: no message is missing and none appears twice, whatever joins,     *)
(* reconnects, reloads and sendMessage events of other clients came before.*)
C23_ShownEqualsLog ==
  ( /\ sock # 0
    /\ status[sock] = "connected"
    /\ savedRoom # Empty
    /\ ~rejoin
    /\ toServer = <<>>
    /\ toClient = <<>> )
  => shown = MessagesOf(roomMessages, savedRoom)

\* the page is on its second connection while the server still holds the
\* first as a member, and it displays a log of two messages
C23_Witness ==
  /\ sock # 0
  /\ status[sock] = "connected"
  /\ savedRoom = TheRoom
  /\ ~rejoin
  /\ toServer = <<>>
  /\ toClient = <<>>
  /\ Cardinality(Members(TheRoom)) = 2
  /\ Len(shown) = 2
  /\ shown = MessagesOf(roomMessages, TheRoom)
====
